---- MODULE Spec2Model ----
(***************************************************************************)
(* The two BusinessScraperForm components of french-data-explorer:         *)
(*   "multipart"  src/src/components/BusinessScraperForm.tsx               *)
(*   "json"       src/unnamed/part_000                                     *)
(* One form instance is modelled; its variant is fixed at construction.    *)
(*                                                                         *)
(* A JavaScript string is a sequence of symbols: "" is << >>, a typed      *)
(* number is the sequence of its characters, and an enumerated value of a  *)
(* Select or RadioGroup is a one-symbol sequence.                          *)
(***************************************************************************)
EXTENDS Integers, Sequences, FiniteSets, TLC

\* Bounds of the model.
MaxActs == 3        \* what the user does: clicks on the button and edits
MaxClock == 1       \* hours the clock may advance

VARIABLES
    variant,     \* which of the two components this instance is
    formData,    \* useState<FormData>
    isLoading,   \* useState(false)
    tasks,       \* the handleSubmit invocations, in order of invocation
    requests,    \* the fetch calls issued
    toasts,      \* the toast() calls made
    downloads,   \* the files handed to the browser by link.click()
    console,     \* the console.error calls made
    clock,       \* hours elapsed since 2026-12-31T23:00Z
    tz,          \* the browser's offset from UTC, in hours
    nActs,       \* clicks on the submit button and edits so far
    nSwallowed   \* the clicks made while the button was disabled

vars == <<variant, formData, isLoading, tasks, requests, toasts, downloads,
          console, clock, tz, nActs, nSwallowed>>

Variants == {"multipart", "json"}

----------------------------------------------------------------------------
\* Strings

Empty == << >>
Str(sym) == <<sym>>

DigitChars == {"0", "1", "2", "3", "4", "5", "6", "7", "8", "9"}

DigitValue(c) ==
    CASE c = "0" -> 0 [] c = "1" -> 1 [] c = "2" -> 2 [] c = "3" -> 3
      [] c = "4" -> 4 [] c = "5" -> 5 [] c = "6" -> 6 [] c = "7" -> 7
      [] c = "8" -> 8 [] c = "9" -> 9

\* A valid number as an <input type="number"> accepts it. The typed texts of
\* this model hold no "." and no exponent.
IsNumberString(s) ==
    LET body == IF Len(s) > 0 /\ s[1] = "-" THEN Tail(s) ELSE s
    IN  /\ Len(body) > 0
        /\ \A i \in 1..Len(body) : body[i] \in DigitChars

RECURSIVE DigitsToNumber(_)
DigitsToNumber(s) ==
    IF Len(s) = 0 THEN 0
    ELSE 10 * DigitsToNumber(SubSeq(s, 1, Len(s) - 1)) + DigitValue(s[Len(s)])

ToNumber(s) ==
    IF s[1] = "-" THEN 0 - DigitsToNumber(Tail(s)) ELSE DigitsToNumber(s)

----------------------------------------------------------------------------
\* The clock: new Date()

\* The offsets from UTC of the browser's time zone, in hours: Central
\* European Time.
TimeZones == {1}

UtcHours == 23 + clock
UtcDay == UtcHours \div 24
LocalDay == (UtcHours + tz) \div 24

\* The calendar date of a day: day 0 is 2026-12-31, day d >= 1 is 2027-01-d.
DateOfDay(d) ==
    IF d = 0 THEN [year |-> 2026, month |-> 12, day |-> 31]
    ELSE [year |-> 2027, month |-> 1, day |-> d]

\* new Date().toISOString().split('T')[0]: the date in UTC
toISODate == DateOfDay(UtcDay)

\* new Date().getFullYear(): the year in local time
getFullYear == DateOfDay(LocalDay).year

\* the user's calendar date
Today == DateOfDay(LocalDay)

----------------------------------------------------------------------------
\* The form state

BooleanFields == {"exclureFranchises"}

FieldOrder ==
    IF variant = "multipart"
    THEN <<"region", "ville", "codePostal", "secteur", "nombreMax", "codeNaf",
           "tailleEntreprise", "formeJuridique", "caMinimum", "caMaximum",
           "anneeCreation", "statut", "exclureFranchises">>
    ELSE <<"location", "searchTerms", "maxResults", "fiberEligibility",
           "nafCodes", "legalForms", "employeeSize", "creationYearMin",
           "creationYearMax", "excludeFranchises">>

Fields == {FieldOrder[i] : i \in 1..Len(FieldOrder)}

InitialFormData(v) ==
    IF v = "multipart"
    THEN [region |-> Empty, ville |-> Empty, codePostal |-> Empty,
          secteur |-> Empty, nombreMax |-> <<"1", "0", "0">>,
          codeNaf |-> Empty, tailleEntreprise |-> Empty,
          formeJuridique |-> Empty, caMinimum |-> Empty,
          caMaximum |-> Empty, anneeCreation |-> Empty,
          statut |-> Str("active"), exclureFranchises |-> FALSE]
    ELSE [location |-> Empty, searchTerms |-> Empty,
          maxResults |-> <<"1", "0", "0">>,
          fiberEligibility |-> Str("already-fiber"), nafCodes |-> Empty,
          legalForms |-> Empty, employeeSize |-> Str("all"),
          creationYearMin |-> Empty, creationYearMax |-> Empty,
          excludeFranchises |-> Str("no")]

\* What the user types into a text input, and into a number input.
TextTyped == {Empty, Str("x")}
NumberTyped == {Empty, <<"a", "b", "c">>, <<"7">>, <<"2", "0", "2", "0">>}

\* What the user types into a year input: a second year within the range.
YearTyped == NumberTyped \cup {<<"1", "9", "9", "9">>}

\* An input that hands over the typed text as it is, as type="text" does.
TextInputValue(typed) == typed

\* e.target.value of an <input type="number">: the typed text when it is a
\* valid number, the empty string otherwise.
NumberInputValue(typed) == IF IsNumberString(typed) THEN typed ELSE Empty

NumberValues == {NumberInputValue(t) : t \in NumberTyped}
YearValues == {NumberInputValue(t) : t \in YearTyped}

\* The values each control can pass to handleInputChange.
ControlValues(field) ==
    CASE field \in {"region", "ville", "codePostal", "secteur", "codeNaf",
                    "formeJuridique", "location", "searchTerms", "nafCodes",
                    "legalForms"} -> TextTyped
      [] field \in {"nombreMax", "caMinimum", "caMaximum"} -> NumberValues
      [] field \in {"anneeCreation", "creationYearMin", "creationYearMax"} ->
            YearValues
      [] field = "tailleEntreprise" ->
            {Str("TPE"), Str("PE"), Str("ME"), Str("GE")}
      [] field = "statut" -> {Str("active"), Str("all")}
      [] field = "exclureFranchises" -> BOOLEAN
      [] field = "maxResults" ->
            {<<"5", "0">>, <<"1", "0", "0">>, <<"2", "0", "0">>,
             <<"5", "0", "0">>}
      [] field = "fiberEligibility" ->
            {Str("no-fiber"), Str("planned-fiber"), Str("recent-fiber"),
             Str("already-fiber")}
      [] field = "employeeSize" ->
            {Str("all"), Str("micro"), Str("small"), Str("medium"),
             Str("large")}
      [] field = "excludeFranchises" -> {Str("no"), Str("yes")}

\* An update computed from the form state of the first render instead of the
\* previous state: setFormData({...formData, [field]: value}) in a stale closure.
handleInputChangeFromStaleState(prev, field, value) ==
    [InitialFormData(variant) EXCEPT ![field] = value]

\* setFormData(prev => ({...prev, [field]: value}))
handleInputChange(prev, field, value) == [prev EXCEPT ![field] = value]

\* The inputs that carry min="1900" max={new Date().getFullYear()}.
MinYear == 1900
YearFields == {"anneeCreation", "creationYearMin", "creationYearMax"}

\* The browser's constraint validation of the form, run before it fires the
\* submit event: an empty number input is valid, a filled one must lie
\* within its min and max.
InRange(value) ==
    IF value = Empty THEN TRUE
    ELSE ToNumber(value) >= MinYear /\ ToNumber(value) <= getFullYear

\* A validation that also refuses a range whose minimum exceeds its maximum.
FormIsValidAndOrdered ==
    LET lower == IF variant = "multipart" THEN "caMinimum" ELSE "creationYearMin"
        upper == IF variant = "multipart" THEN "caMaximum" ELSE "creationYearMax"
    IN  /\ \A f \in Fields \cap YearFields : InRange(formData[f])
        /\ IF formData[lower] = Empty \/ formData[upper] = Empty THEN TRUE
           ELSE ToNumber(formData[lower]) <= ToNumber(formData[upper])

FormIsValid == \A f \in Fields \cap YearFields : InRange(formData[f])

\* A button that is never disabled.
ButtonNeverDisabled == FALSE

\* <Button type="submit" disabled={isLoading}>
ButtonDisabled == isLoading

----------------------------------------------------------------------------
\* The request body

\* A filter that forgets the boolean: value !== ""
IsSubmittedUnlessEmptyString(field, value) ==
    IF field \in BooleanFields THEN TRUE ELSE value # Empty

\* value !== "" && value !== false
IsSubmitted(field, value) ==
    IF field \in BooleanFields THEN value # FALSE ELSE value # Empty

\* value.toString()
toString(field, value) ==
    IF field \in BooleanFields
    THEN (IF value THEN Str("true") ELSE Str("false"))
    ELSE value

\* Object.entries(formData)
Entries(fd) == [i \in 1..Len(FieldOrder) |-> <<FieldOrder[i], fd[FieldOrder[i]]>>]

RECURSIVE AppendEntries(_, _)
AppendEntries(submitData, entries) ==
    IF entries = << >> THEN submitData
    ELSE LET key == entries[1][1]
             value == entries[1][2]
         IN  AppendEntries(
                 IF IsSubmitted(key, value)
                 THEN Append(submitData, <<key, toString(key, value)>>)
                 ELSE submitData,
                 Tail(entries))

\* const submitData = new FormData(); Object.entries(formData).forEach(...)
MultipartBody(fd) == AppendEntries(<< >>, Entries(fd))

\* JSON.stringify(formData): every own property, in order
JsonBody(fd) == Entries(fd)

RequestBody(fd) ==
    IF variant = "multipart" THEN MultipartBody(fd) ELSE JsonBody(fd)

ContentType ==
    IF variant = "multipart" THEN "multipart/form-data" ELSE "application/json"

\* fetch('/scrape', {method: 'POST', ...})
ScrapeRequest(i, fd) ==
    [task |-> i, url |-> "/scrape", method |-> "POST",
     contentType |-> ContentType, body |-> RequestBody(fd)]

----------------------------------------------------------------------------
\* The response

\* The status codes a response may carry.
Statuses == {200, 300, 404}

\* The bodies a response may carry, as bytes: the CSV "a,b\n1,2", and a CSV
\* that starts with a byte order mark and holds a byte that is not UTF-8.
Bodies == {<<"a", ",", "b", "\n", "1", ",", "2">>, <<"BOM", "a", "xFF">>}

\* A check that lets redirections through.
ResponseOkBelow400(status) == status >= 200 /\ status < 400

\* response.ok
ResponseOk(status) == status >= 200 /\ status <= 299

\* response.text(): the body decoded as UTF-8. A leading byte order mark is
\* dropped and a byte that is not UTF-8 becomes U+FFFD.
Utf8Decode(bytes) ==
    LET rest == IF Len(bytes) > 0 /\ bytes[1] = "BOM" THEN Tail(bytes) ELSE bytes
    IN  [i \in 1..Len(rest) |->
            IF rest[i] \in {"xFF", "xEFBFBD"} THEN "U+FFFD" ELSE rest[i]]

\* new Blob([data]): the string encoded as UTF-8; U+FFFD is the three bytes
\* EF BF BD.
Utf8Encode(text) ==
    [i \in 1..Len(text) |-> IF text[i] = "U+FFFD" THEN "xEFBFBD" ELSE text[i]]

\* `entreprises_${new Date().toISOString().split('T')[0]}.csv`
Filename(date) == <<"entreprises_", date, ".csv">>

\* downloadCSV(data, filename), up to link.click()
downloadCSV(i, data, filename) ==
    Append(downloads,
           [task |-> i, filename |-> filename, content |-> Utf8Encode(data),
            type |-> "text/csv;charset=utf-8;"])

\* toast({title: "Recherche terminée", ...})
SuccessToast(i, filename) ==
    [task |-> i, title |-> "Recherche terminée",
     description |-> <<"Les données ont été téléchargées avec succès (",
                       filename, ")">>,
     style |-> "bg-success text-success-foreground"]

\* An error notification that reports what went wrong.
ErrorToastWithCause(i, error) ==
    [task |-> i, title |-> "Erreur", description |-> error,
     style |-> "destructive"]

\* toast({title: "Erreur", ...})
ErrorToast(i, error) ==
    [task |-> i, title |-> "Erreur",
     description |-> <<"Une erreur est survenue lors de la recherche. Veuillez réessayer.">>,
     style |-> "destructive"]

\* new Error(`Erreur HTTP: ${response.status}`)
HttpError(status) == <<"Erreur HTTP: ", status>>

\* What fetch, response.text() and downloadCSV reject or throw with.
NetworkError == <<"TypeError: Failed to fetch", 0>>
BodyReadError == <<"TypeError: body stream error", 0>>
BlobError == <<"Error: createObjectURL failed", 0>>

----------------------------------------------------------------------------------------------------------------------------------------
\* The handleSubmit invocations

\* A task is one invocation of handleSubmit. pc is the await it is
\* suspended at, or "done"; effects lists what it has done, in order.
NewTask ==
    [pc |-> "awaitFetch", status |-> 0, body |-> << >>, textRead |-> FALSE,
     error |-> <<"", 0>>, effects |-> <<"setIsLoading(true)", "fetch">>]

Tasks == 1..Len(tasks)
Pending == {i \in Tasks : tasks[i].pc # "done"}

Init ==
    /\ variant \in Variants
    /\ formData = InitialFormData(variant)
    /\ isLoading = FALSE
    /\ tasks = << >>
    /\ requests = << >>
    /\ toasts = << >>
    /\ downloads = << >>
    /\ console = << >>
    /\ clock = 0
    /\ tz \in TimeZones
    /\ nActs = 0
    /\ nSwallowed = 0

\* An edit that reaches the body of the requests still in flight, as it
\* would if the body were read from the form state when it is sent.
EditBoundToRequest ==
    /\ nActs < MaxActs
    /\ \E field \in Fields : \E value \in ControlValues(field) :
          /\ value # formData[field]
          /\ formData' = handleInputChange(formData, field, value)
          /\ requests' =
                [k \in 1..Len(requests) |->
                    IF requests[k].task \in Pending
                    THEN [requests[k] EXCEPT
                            !.body = RequestBody(handleInputChange(formData, field, value))]
                    ELSE requests[k]]
    /\ nActs' = nActs + 1
    /\ UNCHANGED <<variant, isLoading, tasks, toasts, downloads, console,
                   clock, tz, nSwallowed>>

\* The user changes one control: the change event is fired when the value of
\* the control differs from the one it shows.
Edit ==
    /\ nActs < MaxActs
    /\ \E field \in Fields : \E value \in ControlValues(field) :
          /\ value # formData[field]
          /\ formData' = handleInputChange(formData, field, value)
    /\ nActs' = nActs + 1
    /\ UNCHANGED <<variant, isLoading, tasks, requests, toasts, downloads,
                   console, clock, tz, nSwallowed>>

\* Time passes.
Tick ==
    /\ clock < MaxClock
    /\ clock' = clock + 1
    /\ UNCHANGED <<variant, formData, isLoading, tasks, requests, toasts,
                   downloads, console, tz, nActs, nSwallowed>>

\* A click on the submit button while it is disabled: no event is fired.
ClickDisabled ==
    /\ nActs < MaxActs
    /\ ButtonDisabled
    /\ nActs' = nActs + 1
    /\ nSwallowed' = nSwallowed + 1
    /\ UNCHANGED <<variant, formData, isLoading, tasks, requests, toasts,
                   downloads, console, clock, tz>>

\* A click on the enabled button of a form that fails validation: the
\* browser reports the field and fires no submit event.
ClickInvalid ==
    /\ nActs < MaxActs
    /\ ~ButtonDisabled
    /\ ~FormIsValid
    /\ nActs' = nActs + 1
    /\ UNCHANGED <<variant, formData, isLoading, tasks, requests, toasts,
                   downloads, console, clock, tz, nSwallowed>>

\* handleSubmit, up to its first await: setIsLoading(true), the body is
\* built from formData and fetch is called.
handleSubmit ==
    /\ isLoading' = TRUE
    /\ tasks' = Append(tasks, NewTask)
    /\ requests' = Append(requests, ScrapeRequest(Len(tasks) + 1, formData))
    /\ UNCHANGED <<variant, formData, toasts, downloads, console, clock, tz,
                   nSwallowed>>

\* A click on the enabled button of a valid form fires the submit event.
ClickSubmit ==
    /\ nActs < MaxActs
    /\ ~ButtonDisabled
    /\ FormIsValid
    /\ nActs' = nActs + 1
    /\ handleSubmit

\* A catch block that logs the error and tells the user nothing.
CatchFinallySilent(i, status, error) ==
    /\ console' = Append(console, [task |-> i, error |-> error])
    /\ isLoading' = FALSE
    /\ tasks' = [tasks EXCEPT ![i].pc = "done", ![i].status = status,
                    ![i].error = error,
                    ![i].effects = @ \o <<"console.error", "setIsLoading(false)">>]
    /\ UNCHANGED <<requests, downloads, toasts>>

\* A handler without its finally block: a failure leaves isLoading set.
CatchWithoutFinally(i, status, error) ==
    /\ console' = Append(console, [task |-> i, error |-> error])
    /\ toasts' = Append(toasts, [task |-> i, title |-> "Erreur",
                                 description |-> <<"Une erreur est survenue lors de la recherche. Veuillez réessayer.">>,
                                 style |-> "destructive"])
    /\ tasks' = [tasks EXCEPT ![i].pc = "done", ![i].status = status,
                    ![i].error = error,
                    ![i].effects = @ \o <<"console.error", "toast">>]
    /\ UNCHANGED <<requests, downloads, isLoading>>

\* A catch block that sends the request again.
CatchAndRetry(i, status, error) ==
    /\ console' = Append(console, [task |-> i, error |-> error])
    /\ requests' = Append(requests, requests[i])
    /\ tasks' = [tasks EXCEPT ![i].pc = "awaitFetch",
                    ![i].effects = @ \o <<"console.error", "fetch">>]
    /\ UNCHANGED <<toasts, downloads, isLoading>>

\* The catch block followed by the finally block; status is the status of
\* the response when one was received, 0 otherwise.
CatchFinally(i, status, error) ==
    /\ console' = Append(console, [task |-> i, error |-> error])
    /\ toasts' = Append(toasts, ErrorToast(i, error))
    /\ isLoading' = FALSE
    /\ tasks' = [tasks EXCEPT ![i].pc = "done", ![i].status = status,
                    ![i].error = error,
                    ![i].effects = @ \o <<"console.error", "toast",
                                          "setIsLoading(false)">>]
    /\ UNCHANGED <<requests, downloads>>

\* handleSubmit resumes after `await fetch(...)` with a response: it throws
\* on a status that is not ok, and calls response.text() otherwise.
ResumeWithResponse(i, status) ==
    IF ~ResponseOk(status)
    THEN CatchFinally(i, status, HttpError(status))
    ELSE /\ tasks' = [tasks EXCEPT ![i].pc = "awaitText", ![i].status = status,
                         ![i].effects = Append(@, "response.text")]
         /\ UNCHANGED <<isLoading, requests, toasts, downloads, console>>

\* handleSubmit resumes after `await response.text()`, which has decoded the
\* bytes of the body: the file name is derived, downloadCSV is called and the
\* success is announced. downloadCSV throws when the Blob or its object URL
\* cannot be created.
ResumeWithText(i, bytes, blobCreated) ==
    LET csvData == Utf8Decode(bytes)
        filename == Filename(toISODate)
    IN  IF blobCreated
        THEN /\ downloads' = downloadCSV(i, csvData, filename)
             /\ toasts' = Append(toasts, SuccessToast(i, filename))
             /\ isLoading' = FALSE
             /\ tasks' = [tasks EXCEPT ![i].pc = "done", ![i].body = bytes,
                             ![i].textRead = TRUE,
                             ![i].effects = @ \o <<"downloadCSV", "toast",
                                                   "setIsLoading(false)">>]
             /\ UNCHANGED <<requests, console>>
        ELSE /\ console' = Append(console, [task |-> i, error |-> BlobError])
             /\ toasts' = Append(toasts, ErrorToast(i, BlobError))
             /\ isLoading' = FALSE
             /\ tasks' = [tasks EXCEPT ![i].pc = "done", ![i].body = bytes,
                             ![i].textRead = TRUE, ![i].error = BlobError,
                             ![i].effects = @ \o <<"downloadCSV", "console.error",
                                                   "toast", "setIsLoading(false)">>]
             /\ UNCHANGED <<requests, downloads>>

\* The response of request i arrives with its status line and headers.
FetchFulfils ==
    \E i \in Tasks : \E status \in Statuses :
        /\ tasks[i].pc = "awaitFetch"
        /\ ResumeWithResponse(i, status)
        /\ UNCHANGED <<variant, formData, clock, tz, nActs, nSwallowed>>

\* Request i fails in the network.
FetchRejects ==
    \E i \in Tasks :
        /\ tasks[i].pc = "awaitFetch"
        /\ CatchFinally(i, 0, NetworkError)
        /\ UNCHANGED <<variant, formData, clock, tz, nActs, nSwallowed>>

\* A handler that resets the form once the file has been downloaded.
TextFulfilsAndReset ==
    \E i \in Tasks : \E bytes \in Bodies : \E blobCreated \in BOOLEAN :
        /\ tasks[i].pc = "awaitText"
        /\ ResumeWithText(i, bytes, blobCreated)
        /\ formData' = IF blobCreated THEN InitialFormData(variant) ELSE formData
        /\ UNCHANGED <<variant, clock, tz, nActs, nSwallowed>>

\* The body of response i has arrived in full.
TextFulfils ==
    \E i \in Tasks : \E bytes \in Bodies : \E blobCreated \in BOOLEAN :
        /\ tasks[i].pc = "awaitText"
        /\ ResumeWithText(i, bytes, blobCreated)
        /\ UNCHANGED <<variant, formData, clock, tz, nActs, nSwallowed>>

\* Reading the body of response i fails.
TextRejects ==
    \E i \in Tasks :
        /\ tasks[i].pc = "awaitText"
        /\ CatchFinally(i, tasks[i].status, BodyReadError)
        /\ UNCHANGED <<variant, formData, clock, tz, nActs, nSwallowed>>

Next ==
    \/ Edit
    \/ Tick
    \/ ClickDisabled
    \/ ClickInvalid
    \/ ClickSubmit
    \/ FetchFulfils
    \/ FetchRejects
    \/ TextFulfils
    \/ TextRejects

Spec == Init /\ [][Next]_vars

----------------------------------------------------------------------------
\* C1: at most one /scrape request is outstanding at any time: a click on
\* the submit button made while a submission is pending is swallowed and
\* issues no request, until the pending one settles.

OutstandingRequests == {k \in 1..Len(requests) : requests[k].task \in Pending}

C1_SingleOutstanding ==
    /\ Cardinality(Pending) <= 1
    /\ Cardinality(OutstandingRequests) <= 1
    /\ Len(requests) + nSwallowed <= nActs

\* A click was swallowed while the first submission was pending, and a
\* second submission was accepted after the first had settled.
C1_Witness ==
    /\ nSwallowed > 0
    /\ Len(requests) = 2
    /\ tasks[1].pc = "done"

\* C2: a response whose status is not 2xx is never downloaded and never
\* read, and is reported by the error notification.

ToastsOf(i) == {k \in 1..Len(toasts) : toasts[k].task = i}
DownloadsOf(i) == {k \in 1..Len(downloads) : downloads[k].task = i}
Has(effects, name) == \E k \in 1..Len(effects) : effects[k] = name

C2_NoDownloadOnFailure ==
    \A i \in Tasks :
        (tasks[i].status # 0 /\ (tasks[i].status < 200 \/ tasks[i].status > 299))
        => /\ tasks[i].pc = "done"
           /\ DownloadsOf(i) = {}
           /\ ~tasks[i].textRead
           /\ ~Has(tasks[i].effects, "response.text")
           /\ ~Has(tasks[i].effects, "downloadCSV")
           /\ Cardinality(ToastsOf(i)) = 1
           /\ \A k \in ToastsOf(i) : toasts[k].title = "Erreur"

\* Responses with status 300 and 404 have both been handled.
C2_Witness ==
    /\ Len(tasks) = 2
    /\ {tasks[1].status, tasks[2].status} = {300, 404}
    /\ tasks[2].pc = "done"
    /\ Len(toasts) = 2

\* C3: a 2xx response that is handled to the end triggers exactly one
\* download, named entreprises_YYYY-MM-DD.csv for today's date in the user's
\* calendar, whose content is the text that response.text() returned.

Completes(i) ==
    /\ tasks[i].pc = "awaitText"
    /\ tasks'[i].pc = "done"
    /\ tasks'[i].error = <<"", 0>>

C3_DownloadNamedForToday ==
    [][\A i \in Tasks :
         Completes(i) =>
           /\ Len(downloads') = Len(downloads) + 1
           /\ LET file == downloads'[Len(downloads')]
              IN  /\ file.task = i
                  /\ file.filename = <<"entreprises_", DateOfDay(LocalDay), ".csv">>
                  /\ Utf8Decode(file.content) = Utf8Decode(tasks'[i].body)]_vars

\* C4: the body of every request holds exactly the fields that are neither
\* empty nor at their default, each with its value.

BodyPairs(request) == {request.body[k] : k \in 1..Len(request.body)}

IsEmptyValue(fd, f) == IF f \in BooleanFields THEN fd[f] = FALSE ELSE fd[f] = Empty

AsText(fd, f) ==
    IF f \in BooleanFields THEN (IF fd[f] THEN <<"true">> ELSE <<"false">>) ELSE fd[f]

Issues == Len(requests') = Len(requests) + 1

C4_OnlyNonDefaultFields ==
    [][Issues =>
         BodyPairs(requests'[Len(requests')]) =
           {<<f, AsText(formData, f)>> :
              f \in {g \in Fields :
                       /\ ~IsEmptyValue(formData, g)
                       /\ formData[g] # InitialFormData(variant)[g]}}]_vars

\* C4 as amended: the multipart body holds exactly the fields whose value is
\* neither the empty string nor false, defaults included, each once and with
\* the text of its value; the JSON body holds every field with its value.

C4_NonEmptyFields ==
    [][Issues =>
         LET request == requests'[Len(requests')]
         IN  /\ request.task = Len(tasks')
             /\ \A f \in Fields :
                  ~IsEmptyValue(formData, f) =>
                      <<f, AsText(formData, f)>> \in BodyPairs(request)
             /\ IF variant = "multipart"
                THEN /\ Len(request.body) =
                          Cardinality({f \in Fields : ~IsEmptyValue(formData, f)})
                     /\ \A pair \in BodyPairs(request) :
                          /\ pair[1] \in Fields
                          /\ ~IsEmptyValue(formData, pair[1])
                          /\ pair[2] = AsText(formData, pair[1])
                ELSE /\ Len(request.body) = Cardinality(Fields)
                     /\ BodyPairs(request) = {<<f, formData[f]>> : f \in Fields}]_vars

\* A request was issued from a form with an edited field, a field at its
\* default and an empty field.
C4_Witness ==
    \E k \in 1..Len(requests) :
        /\ \E pair \in BodyPairs(requests[k]) :
              pair[1] \in {"caMinimum", "creationYearMin"} /\ pair[2] = <<"7">>
        /\ \E pair \in BodyPairs(requests[k]) :
              pair[1] \in {"nombreMax", "maxResults"} /\ pair[2] = <<"1", "0", "0">>
        /\ formData[FieldOrder[1]] = Empty

\* C5: submitted from the initial form state, the body holds the fields with
\* a non-empty default and no field whose value is the empty string.

C5_InitialPayloadIsDefaults ==
    [][(Issues /\ formData = InitialFormData(variant)) =>
         LET request == requests'[Len(requests')]
         IN  /\ \A pair \in BodyPairs(request) : pair[2] # Empty
             /\ {pair[1] : pair \in BodyPairs(request)} =
                  IF variant = "multipart"
                  THEN {"nombreMax", "statut"}
                  ELSE {"maxResults", "fiberEligibility", "employeeSize",
                        "excludeFranchises"}]_vars

\* C6: every settled submission has produced exactly one notification: the
\* success notification when the response was 2xx, its body was read and the
\* download was triggered, the error notification in every other case; a
\* pending submission has produced none.

Is2xx(status) == status >= 200 /\ status <= 299

Succeeded(i) ==
    /\ Is2xx(tasks[i].status)
    /\ tasks[i].textRead
    /\ Cardinality(DownloadsOf(i)) = 1

C6_OneNotification ==
    /\ \A k \in 1..Len(toasts) : toasts[k].task \in Tasks
    /\ \A i \in Tasks :
          IF tasks[i].pc # "done"
          THEN ToastsOf(i) = {}
          ELSE /\ Cardinality(ToastsOf(i)) = 1
               /\ \A k \in ToastsOf(i) :
                     /\ toasts[k].title \in {"Recherche terminée", "Erreur"}
                     /\ toasts[k].title = "Recherche terminée" <=> Succeeded(i)
               /\ ~Succeeded(i) =>
                     /\ DownloadsOf(i) = {}
                     /\ \E k \in 1..Len(console) : console[k].task = i

\* One submission ended in a download, and another failed inside
\* downloadCSV after its body had been read.
C6_Witness ==
    /\ Len(tasks) = 2
    /\ tasks[1].pc = "done" /\ Succeeded(1)
    /\ tasks[2].pc = "done" /\ tasks[2].textRead /\ ~Succeeded(2)
    /\ Len(toasts) = 2

\* C7: isLoading is set exactly while a submission is pending: it is false
\* at first, handleSubmit sets it before it issues the request, and every
\* way a submission settles clears it, after the notification.

Position(effects, name) == CHOOSE k \in 1..Len(effects) : effects[k] = name

C7_BusyWhilePending ==
    /\ isLoading <=> Pending # {}
    /\ ButtonDisabled <=> Pending # {}
    /\ \A i \in Tasks :
          /\ tasks[i].effects[1] = "setIsLoading(true)"
          /\ tasks[i].effects[2] = "fetch"
          /\ tasks[i].pc = "done" =>
                /\ tasks[i].effects[Len(tasks[i].effects)] = "setIsLoading(false)"
                /\ Has(tasks[i].effects, "toast")
                /\ Position(tasks[i].effects, "toast") < Len(tasks[i].effects)
                /\ Cardinality(ToastsOf(i)) = 1

\* The first submission has settled with a failure, the button was enabled
\* again, and a second submission is in flight.
C7_Witness ==
    /\ Len(tasks) = 2
    /\ tasks[1].pc = "done" /\ tasks[1].error # <<"", 0>>
    /\ tasks[2].pc = "awaitText"
    /\ isLoading

\* C8: every handleSubmit invocation has issued exactly one request, a POST
\* to /scrape, whatever its outcome: none is repeated and none is withdrawn.

RequestsOf(i) == {k \in 1..Len(requests) : requests[k].task = i}

C8_OneRequestPerSubmit ==
    /\ Len(requests) = Len(tasks)
    /\ \A i \in Tasks :
          /\ Cardinality(RequestsOf(i)) = 1
          /\ requests[i].task = i
          /\ requests[i].url = "/scrape"
          /\ requests[i].method = "POST"
    /\ \A i \in Tasks : Len(SelectSeq(tasks[i].effects, LAMBDA e : e = "fetch")) = 1

\* A submission has failed in the network and another on a status, and no
\* request beyond the two was issued.
C8_Witness ==
    /\ Len(tasks) = 2
    /\ tasks[1].pc = "done" /\ tasks[1].error[1] = "TypeError: Failed to fetch"
    /\ tasks[2].pc = "done" /\ tasks[2].status = 404
    /\ Len(requests) = 2

\* C9: the error raised for a status that is not 2xx carries the status, and
\* the error notification is the same for every failure.

ErrorToasts == {k \in 1..Len(toasts) : toasts[k].title = "Erreur"}

C9_GenericFailure ==
    /\ \A k \in 1..Len(console) :
          LET i == console[k].task
          IN  (tasks[i].status # 0 /\ ~Is2xx(tasks[i].status)) =>
                  console[k].error = <<"Erreur HTTP: ", tasks[i].status>>
    /\ \A k \in ErrorToasts :
          /\ toasts[k].description =
                <<"Une erreur est survenue lors de la recherche. Veuillez réessayer.">>
          /\ toasts[k].style = "destructive"
    /\ \A k, l \in ErrorToasts :
          [toasts[k] EXCEPT !.task = 0] = [toasts[l] EXCEPT !.task = 0]

\* Two submissions have failed for different reasons.
C9_Witness ==
    /\ Len(tasks) = 2
    /\ tasks[1].pc = "done" /\ tasks[2].pc = "done"
    /\ Cardinality(ErrorToasts) = 2
    /\ tasks[1].error # tasks[2].error
    /\ \E i \in Tasks : tasks[i].error = <<"Erreur HTTP: ", 404>>

\* C10: in every form state the max-results value is one of 50, 100, 200
\* and 500.

MaxResultsField == IF variant = "multipart" THEN "nombreMax" ELSE "maxResults"

C10_MaxResultsAllowed ==
    IF formData[MaxResultsField] = Empty THEN FALSE
    ELSE ToNumber(formData[MaxResultsField]) \in {50, 100, 200, 500}


\* C11: a numeric range field (creation year, revenue) holds the empty
\* string or a number in every form state, whatever was typed, and so does
\* every request body.

RangeFields ==
    {"caMinimum", "caMaximum", "anneeCreation", "creationYearMin",
     "creationYearMax"}

IsNumeric(value) ==
    /\ Len(value) > 0
    /\ \A k \in 1..Len(value) :
          value[k] \in {"0", "1", "2", "3", "4", "5", "6", "7", "8", "9"}
             \/ (k = 1 /\ value[k] = "-" /\ Len(value) > 1)

C11_RangeFieldsNumeric ==
    /\ \A f \in Fields \cap RangeFields :
          formData[f] = Empty \/ IsNumeric(formData[f])
    /\ \A k \in 1..Len(requests) : \A pair \in BodyPairs(requests[k]) :
          pair[1] \in RangeFields => (pair[2] = Empty \/ IsNumeric(pair[2]))

\* A request has carried a number in a range field, and of the range fields
\* of the form one is empty and another holds a number.
C11_Witness ==
    /\ \E k \in 1..Len(requests) : \E pair \in BodyPairs(requests[k]) :
          pair[1] \in RangeFields /\ pair[2] = <<"2", "0", "2", "0">>
    /\ \E f \in Fields \cap RangeFields : formData[f] = Empty
    /\ \E f \in Fields \cap RangeFields : formData[f] = <<"1", "9", "9", "9">>


\* C12: min <= max is not enforced: with both bounds of the range given and
\* the minimum above the maximum, a click on the enabled button of a form
\* the browser accepts still issues the request, with both bounds as typed.

RangeMin == IF variant = "multipart" THEN "caMinimum" ELSE "creationYearMin"
RangeMax == IF variant = "multipart" THEN "caMaximum" ELSE "creationYearMax"

MinAboveMax(lower, upper) ==
    IF lower = Empty \/ upper = Empty THEN FALSE
    ELSE ToNumber(lower) > ToNumber(upper)

Clicks == nActs' = nActs + 1 /\ formData' = formData

C12_InvertedRangeIsSent ==
    [][(/\ Clicks
        /\ ~isLoading
        /\ \A f \in Fields \cap YearFields : InRange(formData[f])
        /\ MinAboveMax(formData[RangeMin], formData[RangeMax]))
       => /\ Issues
          /\ <<RangeMin, formData[RangeMin]>> \in BodyPairs(requests'[Len(requests')])
          /\ <<RangeMax, formData[RangeMax]>> \in BodyPairs(requests'[Len(requests')])
          /\ formData' = formData]_vars

\* A request has been issued whose minimum is above its maximum.
C12_Witness ==
    \E k \in 1..Len(requests) :
        \E lower, upper \in BodyPairs(requests[k]) :
            /\ lower[1] = RangeMin
            /\ upper[1] = RangeMax
            /\ MinAboveMax(lower[2], upper[2])


\* C13: the request body is a snapshot of the form at the moment of the
\* submission: no step changes a request already issued, an edit changes
\* the form and nothing of a submission, and a submission carries the
\* values the form holds when it is made.

C13_PayloadIsSnapshot ==
    [][/\ Len(requests') >= Len(requests)
       /\ \A k \in 1..Len(requests) : requests'[k] = requests[k]
       /\ formData' # formData =>
             /\ tasks' = tasks
             /\ toasts' = toasts
             /\ downloads' = downloads
             /\ console' = console
       /\ Issues =>
             \A f \in Fields :
                 ~IsEmptyValue(formData, f) =>
                     <<f, AsText(formData, f)>> \in BodyPairs(requests'[Len(requests')])]_vars

\* The form was edited while its request is in flight: the body sent is no
\* longer the body the form would send now.
C13_Witness ==
    /\ Len(tasks) = 1
    /\ tasks[1].pc = "awaitText"
    /\ requests[1].body # RequestBody(formData)
    /\ requests[1].body = RequestBody(InitialFormData(variant))


\* C14: a submission leaves the form as it is: no step of handleSubmit, from
\* the click to the end of finally, changes a field of formData.

C14_SubmitKeepsForm ==
    [][(\/ tasks' # tasks
        \/ requests' # requests
        \/ toasts' # toasts
        \/ downloads' # downloads
        \/ isLoading' # isLoading)
       => formData' = formData]_vars

\* An edited form was submitted twice, once with success and once with a
\* failure, and still holds the values it sent.
C14_Witness ==
    /\ Len(tasks) = 2
    /\ tasks[1].pc = "done" /\ tasks[1].error = <<"", 0>>
    /\ tasks[2].pc = "done" /\ tasks[2].error # <<"", 0>>
    /\ formData # InitialFormData(variant)
    /\ requests[1].body = RequestBody(formData)
    /\ requests[2].body = RequestBody(formData)


\* C15: handleInputChange sets the named field to the given value and leaves
\* every other field and isLoading as they were; hence no more fields differ
\* from their initial value than edits were made.

ChangedFields == {f \in Fields : formData[f] # InitialFormData(variant)[f]}

C15_EditSetsOneField ==
    /\ [](Cardinality(ChangedFields) + Len(requests) + nSwallowed <= nActs)
    /\ [][formData' # formData =>
             /\ \E f \in Fields : \E value \in ControlValues(f) :
                   /\ formData'[f] = value
                   /\ \A g \in Fields \ {f} : formData'[g] = formData[g]
             /\ isLoading' = isLoading
             /\ nActs' = nActs + 1]_vars

\* Three edits and no click have left two fields changed: one field was set
\* twice and holds the value set last, while a request is not in flight.
C15_Witness ==
    /\ nActs = 3
    /\ Len(requests) = 0
    /\ \A f \in Fields \cap YearFields : formData[f] = Empty
    /\ Cardinality(ChangedFields) = 2

====
